---- MODULE Spec2Model ----
(***************************************************************************)
(* A model of the news-to-posts pipeline of src/main.py: the LangGraph     *)
(* graph fetch_news -> prioritize_articles -> rewrite_news ->              *)
(* post_to_twitter, its scoring helpers and its state.                     *)
(*                                                                         *)
(* Text is a sequence of one-character strings, so that strip, the         *)
(* markdown-link substitution and the slice [:250] are computed as the     *)
(* code computes them.  Python's None is the string "None" for the         *)
(* optional string fields.                                                 *)
(***************************************************************************)
EXTENDS Integers, Sequences, FiniteSets, TLC

\* ------------------------------------------------------------------------
\* Bounds of the model
\* ------------------------------------------------------------------------
\* longest raw record list the news collaborator returns in a pipeline run
MaxArticles == 2
\* largest num_tweets_to_post of a pipeline run
MaxPosts == 2
\* longest article list handed to prioritize_articles alone
MaxRank == 6
\* published timestamps are drawn this many seconds around each breakpoint
RecencySlack == 2
\* most whitespace characters around a language-model output
MaxPad == 2

\* ------------------------------------------------------------------------
\* Program constants
\* ------------------------------------------------------------------------
TopN == 5
TweetLimit == 250
DefaultTrust == 5
ImageBonus == 2
RecencyDefault == 3
SecondsPerHour == 3600

None == "None"

Min(S) == CHOOSE x \in S : \A y \in S : x <= y
Max(S) == CHOOSE x \in S : \A y \in S : x >= y

\* ------------------------------------------------------------------------
\* Python sequence helpers
\* ------------------------------------------------------------------------
\* s[:n] of Python, n any integer: a negative n counts from the end
PyPrefix(s, n) ==
    IF n >= 0 THEN SubSeq(s, 1, IF n < Len(s) THEN n ELSE Len(s))
    ELSE SubSeq(s, 1, IF Len(s) + n > 0 THEN Len(s) + n ELSE 0)

\* zip(a, b): pairs up to the shorter sequence
Zip(a, b) ==
    [k \in 1..(IF Len(a) < Len(b) THEN Len(a) ELSE Len(b)) |->
        [tweet |-> a[k], article |-> b[k]]]

\* n copies of character c
Rep(c, n) == [k \in 1..n |-> c]

\* ------------------------------------------------------------------------
\* Text helpers of rewrite_news and post_to_twitter
\* ------------------------------------------------------------------------
Whitespace == {" ", "\n", "\t"}

\* str.strip()
Strip(s) ==
    LET keep == {k \in 1..Len(s) : s[k] \notin Whitespace}
    IN  IF keep = {} THEN <<>> ELSE SubSeq(s, Min(keep), Max(keep))

\* first position after `from` holding character c, 0 when there is none
FirstAfter(s, from, c) ==
    LET hits == {k \in (from + 1)..Len(s) : s[k] = c}
    IN  IF hits = {} THEN 0 ELSE Min(hits)

\* the regular expression \[([^\]]+)\]\([^)]+\) tried at position i:
\* [close |-> position of "]", end |-> position of ")"], end = 0 for no match
LinkMatch(s, i) ==
    LET close == FirstAfter(s, i, "]")
        paren == IF close > 0 /\ close < Len(s) /\ s[close + 1] = "("
                 THEN FirstAfter(s, close + 1, ")") ELSE 0
        ok    == /\ s[i] = "["
                 /\ close > i + 1
                 /\ paren > close + 2
    IN  [close |-> close, end |-> IF ok THEN paren ELSE 0]

\* the first position from i on where the expression matches, 0 for none
NextLink(s, i) ==
    LET starts == {j \in i..Len(s) : s[j] = "[" /\ LinkMatch(s, j).end > 0}
    IN  IF starts = {} THEN 0 ELSE Min(starts)

\* re.sub(r'\[([^\]]+)\]\([^)]+\)', r'\1', s): the leftmost match is replaced
\* by its group 1 and the scan goes on behind it
RECURSIVE ReSubFrom(_, _)
ReSubFrom(s, i) ==
    LET j == NextLink(s, i)
    IN  IF j = 0 THEN SubSeq(s, i, Len(s))
        ELSE LET m == LinkMatch(s, j)
             IN  SubSeq(s, i, j - 1) \o SubSeq(s, j + 1, m.close - 1)
                 \o ReSubFrom(s, m.end + 1)

ReSubLinks(s) == ReSubFrom(s, 1)

\* tweet_text[:250]
TruncateNone(text) == text
Truncate(text) == PyPrefix(text, TweetLimit)

\* the post kept for one language-model output
RewriteOutput(content) == Truncate(ReSubLinks(Strip(content)))

\* str.lower() on the letters run configuration uses
LowerChar(c) ==
    CASE c = "T" -> "t" [] c = "R" -> "r" [] c = "U" -> "u" [] c = "E" -> "e"
      [] c = "F" -> "f" [] c = "A" -> "a" [] c = "L" -> "l" [] c = "S" -> "s"
      [] OTHER -> c
Lower(s) == [k \in 1..Len(s) |-> LowerChar(s[k])]

StrTrue == <<"t", "r", "u", "e">>

\* auto_post of post_to_twitter: a str is compared with "true", anything
\* else goes through bool()
ParseAutoPostTruthy(raw) == IF raw.isstr THEN raw.s # <<>> ELSE raw.b
ParseAutoPost(raw) == IF raw.isstr THEN Lower(raw.s) = StrTrue ELSE raw.b


\* ------------------------------------------------------------------------
\* Scoring helpers
\* ------------------------------------------------------------------------
TRUSTED_SOURCES ==
    [s \in {"BBC News", "Reuters", "Associated Press", "The Guardian", "CNN",
            "The New York Times", "Al Jazeera", "The Washington Post",
            "Bloomberg", "CNBC", "Financial Times", "NPR",
            "The Wall Street Journal"} |->
        CASE s \in {"BBC News", "Reuters", "Associated Press"} -> 10
          [] s \in {"The Guardian", "The New York Times", "The Washington Post",
                    "Financial Times", "The Wall Street Journal"} -> 9
          [] s \in {"CNN", "Al Jazeera", "Bloomberg", "NPR"} -> 8
          [] OTHER -> 7]

\* TRUSTED_SOURCES.get(source, 5)
TrustScore(source) ==
    IF source \in DOMAIN TRUSTED_SOURCES THEN TRUSTED_SOURCES[source]
    ELSE DefaultTrust

\* truth value of an Optional[str]
Truthy(url) == url \notin {None, ""}

has_image_bonus(url) == IF Truthy(url) THEN ImageBonus ELSE 0

(* A published_at string is [form, tz, t]: form "iso" when the text is a    *)
(* date and time datetime.fromisoformat accepts, tz its suffix ("Z", an    *)
(* offset such as "+05:30", or "naive" for none), t the instant it names   *)
(* in seconds (read as UTC when there is no offset).                       *)

\* published_at.replace('Z', '+00:00')
ReplaceZ(p) == [p EXCEPT !.tz = IF @ = "Z" THEN "+00:00" ELSE @]

\* datetime.fromisoformat: raises ValueError on anything but a date and time;
\* the result is aware exactly when the text carries an offset
FromIsoFormat(p) ==
    IF p.form = "iso"
    THEN [raised |-> "", aware |-> p.tz # "naive", t |-> p.t]
    ELSE [raised |-> "ValueError", aware |-> FALSE, t |-> 0]

\* datetime.now(timezone.utc) - pub_date, in seconds: subtracting a naive
\* datetime from an aware one raises TypeError
ElapsedSeconds(now, d) ==
    IF d.aware THEN [raised |-> "", secs |-> now - d.t]
    ELSE [raised |-> "TypeError", secs |-> 0]

\* hours_old = seconds / 3600 is compared with whole hours, which is the
\* comparison of the seconds with hours * 3600
calculate_recency_score(published_at, now) ==
    LET pub_date == FromIsoFormat(ReplaceZ(published_at))
        diff     == ElapsedSeconds(now, pub_date)
    IN  IF pub_date.raised # "" \/ diff.raised # "" THEN RecencyDefault
        ELSE IF diff.secs <= 6 * SecondsPerHour THEN 10
        ELSE IF diff.secs <= 24 * SecondsPerHour THEN 8
        ELSE IF diff.secs <= 48 * SecondsPerHour THEN 6
        ELSE IF diff.secs <= 168 * SecondsPerHour THEN 4
        ELSE 2

\* the loop body of prioritize_articles: the article with its score set
Scored(article, now) ==
    LET src_score == TrustScore(article.source)
        recency   == calculate_recency_score(article.published_at, now)
    IN  [article EXCEPT
            !.priority_score = src_score + recency + has_image_bonus(article.image_url),
            !.priority_reason = [source |-> src_score, recency |-> recency]]

\* one step of a stable descending sort: x goes behind every element that
\* is not smaller
RECURSIVE InsertDesc(_, _)
InsertDesc(x, s) ==
    IF s = <<>> THEN <<x>>
    ELSE IF Head(s).priority_score >= x.priority_score
         THEN <<Head(s)>> \o InsertDesc(x, Tail(s))
         ELSE <<x>> \o s

RECURSIVE InsertDescUnstable(_, _)
InsertDescUnstable(x, s) ==
    IF s = <<>> THEN <<x>>
    ELSE IF Head(s).priority_score > x.priority_score
         THEN <<Head(s)>> \o InsertDescUnstable(x, Tail(s))
         ELSE <<x>> \o s

RECURSIVE SortFrom(_, _, _)
SortFrom(s, k, acc) ==
    IF k > Len(s) THEN acc ELSE SortFrom(s, k + 1, InsertDesc(s[k], acc))

RECURSIVE SortFromUnstable(_, _, _)
SortFromUnstable(s, k, acc) ==
    IF k > Len(s) THEN acc
    ELSE SortFromUnstable(s, k + 1, InsertDescUnstable(s[k], acc))

\* sorted(articles, key=lambda x: x.priority_score, reverse=True): stable
SortedDescUnstable(s) == SortFromUnstable(s, 1, <<>>)
SortedDesc(s) == SortFrom(s, 1, <<>>)


\* ------------------------------------------------------------------------
\* State
\* ------------------------------------------------------------------------
VARIABLES
    node,               \* the graph node that runs next, "END" or "FAILED"
    pc,                 \* the position inside the running node
    error,              \* the message of the exception that ended the run
    trace,              \* the nodes entered so far, in order
    News_Api_Key,       \* whether the environment holds the news credential
    twitter_client,     \* FALSE when tweepy.Client came out None
    twitter_api_v1,     \* FALSE when tweepy.API came out None
    now_utc,            \* datetime.now(timezone.utc), in seconds
    auto_post,          \* GraphState.auto_post as supplied (bool or str)
    num_tweets_to_post, \* GraphState.num_tweets_to_post
    articles,           \* GraphState.articles
    top_articles,       \* GraphState.top_articles
    rewritten_tweets,   \* GraphState.rewritten_tweets
    tweet_results,      \* GraphState.tweet_results
    rewritten,          \* rewrite_news: the local list
    llm_log,            \* every language-model call: its content or its failure
    i,                  \* post_to_twitter: the loop index
    media_id,           \* post_to_twitter: media_id of the current pair
    results,            \* post_to_twitter: the local tweet_results
    platform_calls,     \* every image fetch, media upload and create_tweet call
    tmp_files           \* the temporary files that exist on disk

vars == <<node, pc, error, trace, News_Api_Key, twitter_client, twitter_api_v1,
          now_utc, auto_post, num_tweets_to_post, articles, top_articles,
          rewritten_tweets, tweet_results, rewritten, llm_log, i, media_id,
          results, platform_calls, tmp_files>>

config == <<News_Api_Key, twitter_client, twitter_api_v1, now_utc, auto_post,
            num_tweets_to_post>>
publish_locals == <<i, media_id, results, platform_calls, tmp_files>>

\* ------------------------------------------------------------------------
\* Inputs
\* ------------------------------------------------------------------------
Digits == <<"1", "2", "3", "4", "5", "6", "7", "8", "9">>

\* the instant of the run
Epoch == 1000 * SecondsPerHour

Stamp(form, tz, t) == [form |-> form, tz |-> tz, t |-> t]

\* raw records of the news collaborator: title, source.name, publishedAt,
\* urlToImage; the url is set by the record's place in the response
RawBBC ==
    [title |-> "t", source |-> "BBC News", image_url |-> "https://img",
     published_at |-> Stamp("iso", "Z", Epoch - SecondsPerHour)]
RawOld ==
    [title |-> "t", source |-> None, image_url |-> None,
     published_at |-> Stamp("iso", "Z", Epoch - 240 * SecondsPerHour)]
RawUntitled ==
    [title |-> None, source |-> "Reuters", image_url |-> None,
     published_at |-> Stamp("iso", "Z", Epoch)]
RawCNBC ==
    [title |-> "t", source |-> "CNBC", image_url |-> "",
     published_at |-> Stamp("garbage", "naive", 0)]

PipelineKinds == {RawBBC, RawOld, RawUntitled}
RankKinds == {RawBBC, RawOld, RawCNBC}

UrlOf(k) == <<"u", Digits[k]>>

\* the responses of the collaborator: up to n records of the given kinds
RawResponses(kinds, n) ==
    UNION {[1..len -> kinds] : len \in 0..n}

\* Article(...) of fetch_news for the raw record at place k
NewArticle(raw, k) ==
    [title |-> raw.title,
     source |-> IF raw.source = None THEN "Unknown" ELSE raw.source,
     url |-> UrlOf(k),
     published_at |-> raw.published_at,
     image_url |-> raw.image_url,
     priority_score |-> 0,
     priority_reason |-> [source |-> 0, recency |-> 0]]

\* the articles list fetch_news builds: records without a title are skipped
RECURSIVE Normalize(_, _)
Normalize(raws, k) ==
    IF k > Len(raws) THEN <<>>
    ELSE (IF Truthy(raws[k].title) THEN <<NewArticle(raws[k], k)>> ELSE <<>>)
         \o Normalize(raws, k + 1)

AutoPostValues ==
    {[isstr |-> FALSE, b |-> TRUE, s |-> <<>>],
     [isstr |-> FALSE, b |-> FALSE, s |-> <<>>],
     [isstr |-> TRUE, b |-> FALSE, s |-> <<"T", "r", "u", "e">>],
     [isstr |-> TRUE, b |-> FALSE, s |-> <<"f", "a", "l", "s", "e">>]}

\* outputs of the language model in a pipeline run
ShortOutputs ==
    {<<"h", "i">>, <<" ", "[", "a", "]", "(", "u", ")", "\n">>}

\* messages of the exceptions create_tweet raises
PostErrors == {"403 Forbidden", "429 Too Many Requests"}

\* ------------------------------------------------------------------------
\* Init: main() builds the input state, the module level builds the clients
\* ------------------------------------------------------------------------
InitCommon ==
    /\ pc = "entry"
    /\ error = ""
    /\ trace = <<>>
    /\ now_utc = Epoch
    /\ rewritten_tweets = <<>>
    /\ tweet_results = <<>>
    /\ rewritten = <<>>
    /\ llm_log = <<>>
    /\ i = 0
    /\ media_id = None
    /\ results = <<>>
    /\ platform_calls = <<>>
    /\ tmp_files = {}

Init ==
    /\ InitCommon
    /\ node = "fetch_news"
    /\ articles = <<>>
    /\ top_articles = <<>>
    /\ News_Api_Key \in BOOLEAN
    /\ twitter_client \in BOOLEAN
    /\ twitter_api_v1 \in BOOLEAN
    /\ auto_post \in AutoPostValues
    /\ num_tweets_to_post \in -1..MaxPosts

\* a node raises: graph.ainvoke raises and the run ends
Raise(msg) ==
    /\ node' = "FAILED"
    /\ error' = msg
    /\ pc' = "entry"

\* ------------------------------------------------------------------------
\* Node 1: fetch_news
\* ------------------------------------------------------------------------
FetchNews(kinds, n) ==
    /\ node = "fetch_news"
    /\ trace' = Append(trace, "fetch_news")
    /\ \/ /\ ~News_Api_Key
          /\ Raise("Missing News_Api_Key in .env")
          /\ UNCHANGED articles
       \/ /\ News_Api_Key
          /\ Raise("ClientError")
          /\ UNCHANGED articles
       \/ /\ News_Api_Key
          /\ \E raws \in RawResponses(kinds, n) :
                articles' = Normalize(raws, 1)
          /\ node' = "prioritize_articles"
          /\ UNCHANGED <<pc, error>>
    /\ UNCHANGED <<config, top_articles, rewritten_tweets, tweet_results,
                   rewritten, llm_log, publish_locals>>

\* ------------------------------------------------------------------------
\* Node 2: prioritize_articles
\* ------------------------------------------------------------------------
\* sorted_articles[:5]
TopSlice(s) == PyPrefix(s, TopN)

PrioritizeArticles ==
    /\ node = "prioritize_articles"
    /\ trace' = Append(trace, "prioritize_articles")
    /\ LET scored == [k \in 1..Len(articles) |-> Scored(articles[k], now_utc)]
       IN  /\ articles' = scored
           /\ top_articles' = TopSlice(SortedDesc(scored))
    /\ node' = "rewrite_news"
    /\ UNCHANGED <<pc, error, config, rewritten_tweets, tweet_results,
                   rewritten, llm_log, publish_locals>>


\* ------------------------------------------------------------------------
\* Node 3: rewrite_news
\* ------------------------------------------------------------------------
RewriteEntry ==
    /\ node = "rewrite_news"
    /\ pc = "entry"
    /\ trace' = Append(trace, "rewrite_news")
    /\ rewritten' = <<>>
    /\ pc' = "llm"
    /\ UNCHANGED <<node, error, config, articles, top_articles,
                   rewritten_tweets, tweet_results, llm_log, publish_locals>>

\* await llm.ainvoke(...) returns for the next article
RewriteInvoke(outputs) ==
    /\ node = "rewrite_news"
    /\ pc = "llm"
    /\ Len(rewritten) < Len(top_articles)
    /\ \E content \in outputs :
          /\ rewritten' = Append(rewritten, RewriteOutput(content))
          /\ llm_log' = Append(llm_log, [raised |-> FALSE, content |-> content])
    /\ UNCHANGED <<node, pc, error, trace, config, articles, top_articles,
                   rewritten_tweets, tweet_results, publish_locals>>

RewriteInvokeSkips ==
    /\ node = "rewrite_news"
    /\ pc = "llm"
    /\ Len(rewritten) < Len(top_articles)
    /\ llm_log' = Append(llm_log, [raised |-> TRUE, content |-> <<>>])
    /\ top_articles' =
          SubSeq(top_articles, 1, Len(rewritten))
          \o SubSeq(top_articles, Len(rewritten) + 2, Len(top_articles))
    /\ UNCHANGED <<node, pc, error, trace, config, articles, rewritten,
                   rewritten_tweets, tweet_results, publish_locals>>

\* await llm.ainvoke(...) raises: nothing catches it
RewriteInvokeRaises ==
    /\ node = "rewrite_news"
    /\ pc = "llm"
    /\ Len(rewritten) < Len(top_articles)
    /\ llm_log' = Append(llm_log, [raised |-> TRUE, content |-> <<>>])
    /\ Raise("llm.ainvoke failed")
    /\ UNCHANGED <<trace, config, articles, top_articles, rewritten,
                   rewritten_tweets, tweet_results, publish_locals>>

RewriteReturn ==
    /\ node = "rewrite_news"
    /\ pc = "llm"
    /\ Len(rewritten) = Len(top_articles)
    /\ rewritten_tweets' = rewritten
    /\ node' = "post_to_twitter"
    /\ pc' = "entry"
    /\ UNCHANGED <<error, trace, config, articles, top_articles, tweet_results,
                   rewritten, llm_log, publish_locals>>

\* ------------------------------------------------------------------------
\* Node 4: post_to_twitter
\* ------------------------------------------------------------------------
TweetResult(text, id, url, success, err) ==
    [tweet_text |-> text, tweet_id |-> id, tweet_url |-> url,
     success |-> success, error |-> err]

\* tweets[:num_to_post]
TweetsToPostAll == rewritten_tweets
TweetsToPost == PyPrefix(rewritten_tweets, num_tweets_to_post)
\* articles[:num_to_post]
ArticlesToPost == PyPrefix(top_articles, num_tweets_to_post)
\* zip(tweets_to_post, articles_to_post)
Pairs == Zip(TweetsToPost, ArticlesToPost)

\* f"{tweet}\n\n{article.url}"
FullTweet(pair) == pair.tweet \o <<"\n", "\n">> \o pair.article.url

\* the identifiers the platform hands out for pair k
MediaIdOf(k) == "media-" \o Digits[k]
TweetIdOf(k) == "17" \o Digits[k]
\* f"https://x.com/user/status/{tweet_id}"
TweetUrl(id) == "https://x.com/user/status/" \o id

\* if not twitter_client or not twitter_api_v1
ClientsMissingOnlyClient == ~twitter_client
ClientsMissing == ~twitter_client \/ ~twitter_api_v1

Call(op, pair, media, outcome) ==
    [op |-> op, pair |-> pair, media |-> media, outcome |-> outcome]

\* the head of the for loop, reached with pair k next and res collected:
\* the image attempt when the article has an image, the post attempt
\* otherwise, the return when no pair is left
LoopHead(k, res) ==
    /\ i' = k
    /\ media_id' = None
    /\ results' = res
    /\ IF k > Len(Pairs)
       THEN /\ tweet_results' = res
            /\ node' = "END"
            /\ pc' = "entry"
       ELSE /\ UNCHANGED <<tweet_results, node>>
            /\ pc' = IF Truthy(Pairs[k].article.image_url)
                     THEN "image_get" ELSE "create_tweet"

PostEntry ==
    /\ node = "post_to_twitter"
    /\ pc = "entry"
    /\ trace' = Append(trace, "post_to_twitter")
    /\ \/ /\ ~ParseAutoPost(auto_post)
          /\ tweet_results' =
                [k \in 1..Len(TweetsToPost) |->
                    TweetResult(TweetsToPost[k], None, None, FALSE,
                                "Auto-post disabled")]
          /\ node' = "END"
          /\ UNCHANGED <<pc, error, i, media_id, results>>
       \/ /\ ParseAutoPost(auto_post)
          /\ ClientsMissing
          /\ Raise("Twitter clients not initialized properly")
          /\ UNCHANGED <<tweet_results, i, media_id, results>>
       \/ /\ ParseAutoPost(auto_post)
          /\ ~ClientsMissing
          /\ LoopHead(1, <<>>)
          /\ UNCHANGED error
    /\ UNCHANGED <<config, articles, top_articles, rewritten_tweets, rewritten,
                   llm_log, platform_calls, tmp_files>>

ImageGetAborting ==
    /\ node = "post_to_twitter"
    /\ pc = "image_get"
    /\ \/ /\ platform_calls' =
                Append(platform_calls, Call("image_get", i, None, "200"))
          /\ tmp_files' = tmp_files \cup {i}
          /\ pc' = "media_upload"
          /\ UNCHANGED <<node, tweet_results, i, media_id, results>>
       \/ /\ \E outcome \in {"404", "exception"} :
                platform_calls' =
                    Append(platform_calls, Call("image_get", i, None, outcome))
          /\ LoopHead(i + 1,
                Append(results,
                    TweetResult(FullTweet(Pairs[i]), None, None, FALSE,
                                "image failed")))
          /\ UNCHANGED tmp_files
    /\ UNCHANGED <<error, trace, config, articles, top_articles,
                   rewritten_tweets, rewritten, llm_log>>

\* requests.get(article.image_url, timeout=10), and on 200 the temporary file
ImageGet ==
    /\ node = "post_to_twitter"
    /\ pc = "image_get"
    /\ \/ /\ platform_calls' =
                Append(platform_calls, Call("image_get", i, None, "200"))
          /\ tmp_files' = tmp_files \cup {i}
          /\ pc' = "media_upload"
       \/ /\ \E outcome \in {"404", "exception"} :
                platform_calls' =
                    Append(platform_calls, Call("image_get", i, None, outcome))
          /\ pc' = "create_tweet"
          /\ UNCHANGED tmp_files
    /\ UNCHANGED <<node, error, trace, config, articles, top_articles,
                   rewritten_tweets, tweet_results, rewritten, llm_log, i,
                   media_id, results>>

\* what leaving the with block of NamedTemporaryFile(delete=False) does to
\* the files on disk: the file is closed and stays
CloseTemp(files, k) == files

\* tmp.write, tmp.flush and twitter_api_v1.media_upload(tmp.name)
MediaUpload ==
    /\ node = "post_to_twitter"
    /\ pc = "media_upload"
    /\ \/ /\ platform_calls' =
                Append(platform_calls, Call("media_upload", i, MediaIdOf(i), "ok"))
          /\ media_id' = MediaIdOf(i)
       \/ /\ platform_calls' =
                Append(platform_calls, Call("media_upload", i, None, "exception"))
          /\ UNCHANGED media_id
       \/ \* tmp.write raises before the upload is called
          /\ UNCHANGED <<platform_calls, media_id>>
    /\ tmp_files' = CloseTemp(tmp_files, i)
    /\ pc' = "create_tweet"
    /\ UNCHANGED <<node, error, trace, config, articles, top_articles,
                   rewritten_tweets, tweet_results, rewritten, llm_log, i,
                   results>>

CreateTweetUncaught ==
    /\ node = "post_to_twitter"
    /\ pc = "create_tweet"
    /\ \/ /\ platform_calls' =
                Append(platform_calls, Call("create_tweet", i, media_id, "ok"))
          /\ LoopHead(i + 1,
                Append(results,
                    TweetResult(FullTweet(Pairs[i]), TweetIdOf(i),
                                TweetUrl(TweetIdOf(i)), TRUE, None)))
          /\ UNCHANGED error
       \/ \E msg \in PostErrors :
          /\ platform_calls' =
                Append(platform_calls, Call("create_tweet", i, media_id, msg))
          /\ Raise(msg)
          /\ UNCHANGED <<tweet_results, i, media_id, results>>
    /\ UNCHANGED <<trace, config, articles, top_articles,
                   rewritten_tweets, rewritten, llm_log, tmp_files>>

\* twitter_client.create_tweet(...) and the TweetResult of the pair
CreateTweet ==
    /\ node = "post_to_twitter"
    /\ pc = "create_tweet"
    /\ \/ /\ platform_calls' =
                Append(platform_calls, Call("create_tweet", i, media_id, "ok"))
          /\ LoopHead(i + 1,
                Append(results,
                    TweetResult(FullTweet(Pairs[i]), TweetIdOf(i),
                                TweetUrl(TweetIdOf(i)), TRUE, None)))
       \/ \E msg \in PostErrors :
          /\ platform_calls' =
                Append(platform_calls, Call("create_tweet", i, media_id, msg))
          /\ LoopHead(i + 1,
                Append(results,
                    TweetResult(FullTweet(Pairs[i]), None, None, FALSE, msg)))
    /\ UNCHANGED <<error, trace, config, articles, top_articles,
                   rewritten_tweets, rewritten, llm_log, tmp_files>>

\* ------------------------------------------------------------------------
\* The pipeline
\* ------------------------------------------------------------------------
Next ==
    \/ FetchNews(PipelineKinds, MaxArticles)
    \/ PrioritizeArticles
    \/ RewriteEntry
    \/ RewriteInvoke(ShortOutputs)
    \/ RewriteInvokeRaises
    \/ RewriteReturn
    \/ PostEntry
    \/ ImageGet
    \/ MediaUpload
    \/ CreateTweet

Spec == Init /\ [][Next]_vars


\* ------------------------------------------------------------------------
\* prioritize_articles alone, on every article list up to MaxRank
\* ------------------------------------------------------------------------
InitConfig ==
    /\ News_Api_Key = TRUE
    /\ twitter_client = TRUE
    /\ twitter_api_v1 = TRUE
    /\ auto_post = [isstr |-> FALSE, b |-> FALSE, s |-> <<>>]
    /\ num_tweets_to_post = 1

InitRank ==
    /\ InitCommon
    /\ InitConfig
    /\ node = "prioritize_articles"
    /\ top_articles = <<>>
    /\ \E raws \in RawResponses(RankKinds, MaxRank) :
          articles = Normalize(raws, 1)

NextRank == PrioritizeArticles

SpecRank == InitRank /\ [][NextRank]_vars

\* ------------------------------------------------------------------------
\* calculate_recency_score, through prioritize_articles, on timestamps
\* around every breakpoint
\* ------------------------------------------------------------------------
BreakpointHours == {0, 6, 24, 48, 168}

ElapsedSamples ==
    {h * SecondsPerHour + d : h \in BreakpointHours,
                              d \in (0 - RecencySlack)..RecencySlack}

StampSamples ==
    {Stamp("iso", tz, Epoch - e) : tz \in {"Z", "+05:30", "naive"},
                                   e \in ElapsedSamples}
    \cup {Stamp("garbage", "naive", 0), Stamp("empty", "naive", 0)}

InitRecency ==
    /\ InitCommon
    /\ InitConfig
    /\ node = "prioritize_articles"
    /\ top_articles = <<>>
    /\ \E p \in StampSamples :
          articles = Normalize(<<[RawOld EXCEPT !.published_at = p]>>, 1)

NextRecency == PrioritizeArticles

SpecRecency == InitRecency /\ [][NextRecency]_vars

\* ------------------------------------------------------------------------
\* rewrite_news alone, on language-model outputs around the 250 limit
\* ------------------------------------------------------------------------
BodyLengths ==
    {0, 1, TweetLimit - 1, TweetLimit, TweetLimit + 1, TweetLimit + 40}

\* a markdown link, a bracket that is no link, or nothing
LinkSamples ==
    {<<>>,
     <<"[", "t", "x", "]", "(", "h", ":", "u", ")">>,
     <<"[", "t", "]", " ", "(", "u", ")">>}

LongOutputs ==
    {Rep(" ", lead) \o link \o Rep("a", n) \o Rep("\n", trail) :
        lead \in 0..MaxPad, trail \in 0..MaxPad,
        link \in LinkSamples, n \in BodyLengths}

InitRewrite ==
    /\ InitCommon
    /\ InitConfig
    /\ node = "rewrite_news"
    /\ articles = <<Scored(NewArticle(RawBBC, 1), Epoch)>>
    /\ top_articles = articles

NextRewrite ==
    \/ RewriteEntry
    \/ RewriteInvoke(LongOutputs)
    \/ RewriteInvokeRaises
    \/ RewriteReturn

SpecRewrite == InitRewrite /\ [][NextRewrite]_vars


\* ------------------------------------------------------------------------
\* Properties
\* ------------------------------------------------------------------------
StageOrder ==
    <<"fetch_news", "prioritize_articles", "rewrite_news", "post_to_twitter">>

Entered(stage) == \E k \in 1..Len(trace) : trace[k] = stage

IsCreate(c) == c.op = "create_tweet"
CreateCalls == SelectSeq(platform_calls, IsCreate)

CallsFor(op, k) ==
    {n \in 1..Len(platform_calls) :
        platform_calls[n].op = op /\ platform_calls[n].pair = k}

\* the run configuration switches auto-post off / on
AutoPostOff ==
    \/ ~auto_post.isstr /\ auto_post.b = FALSE
    \/ auto_post.isstr /\ auto_post.s = <<"f", "a", "l", "s", "e">>
AutoPostOn ==
    \/ ~auto_post.isstr /\ auto_post.b = TRUE
    \/ auto_post.isstr /\ auto_post.s = <<"T", "r", "u", "e">>

\* auto-post is on and both platform clients exist
LiveMode == AutoPostOn /\ twitter_client /\ twitter_api_v1

Smaller(a, b) == IF a < b THEN a ELSE b

\* the text of result k as the mode composes it
ExpectedText(k) ==
    IF AutoPostOff THEN rewritten_tweets[k]
    ELSE rewritten_tweets[k] \o <<"\n", "\n">> \o top_articles[k].url

(* C1: with a publish limit N >= 0 and equally long post and article       *)
(* sequences of length L, a finished post_to_twitter returns exactly       *)
(* min(N, L) results, in preview and in live mode, result k being that of  *)
(* pair k; so never more than N.                                           *)
C1_ResultCount ==
    (/\ node = "END"
     /\ num_tweets_to_post >= 0
     /\ Len(rewritten_tweets) = Len(top_articles))
    => /\ Len(tweet_results)
            = Smaller(num_tweets_to_post, Len(rewritten_tweets))
       /\ Len(tweet_results) <= num_tweets_to_post
       /\ \A k \in 1..Len(tweet_results) :
             tweet_results[k].tweet_text = ExpectedText(k)

C1_Witness ==
    /\ node = "END"
    /\ LiveMode
    /\ num_tweets_to_post = 1
    /\ Len(rewritten_tweets) = 2
    /\ Len(top_articles) = 2
    /\ Len(tweet_results) = 1

(* C2: with auto-post off the platform is never contacted (no image fetch, *)
(* no media upload, no create_tweet), whatever the state of the clients,   *)
(* and every returned result is success = false, error "Auto-post          *)
(* disabled", without id or URL, its text the rewritten post unchanged.    *)
C2_PreviewNeverContacts ==
    AutoPostOff
    => /\ platform_calls = <<>>
       /\ tmp_files = {}
       /\ node # "FAILED" \/ ~Entered("post_to_twitter")
       /\ \A k \in 1..Len(tweet_results) :
             /\ tweet_results[k].success = FALSE
             /\ tweet_results[k].error = "Auto-post disabled"
             /\ tweet_results[k].tweet_id = None
             /\ tweet_results[k].tweet_url = None
             /\ tweet_results[k].tweet_text = rewritten_tweets[k]

C2_Witness ==
    /\ node = "END"
    /\ auto_post.isstr
    /\ AutoPostOff
    /\ ~twitter_client
    /\ Len(rewritten_tweets) = 2
    /\ Len(tweet_results) = 2

(* C3: in live mode a failing create_tweet for pair k is recorded in       *)
(* result k alone (success = false, error the exception's message, no id   *)
(* or URL) and never ends the stage: the pairs are attempted one by one    *)
(* up to the limit, and result k is decided by create_tweet call k alone.  *)
C3_PostFailureIsolated ==
    (LiveMode /\ Entered("post_to_twitter"))
    => /\ node # "FAILED"
       /\ \A n \in 1..Len(CreateCalls) : CreateCalls[n].pair = n
       /\ Len(results) = Len(CreateCalls)
       /\ \A k \in 1..Len(results) :
             IF CreateCalls[k].outcome = "ok"
             THEN /\ results[k].success = TRUE
                  /\ results[k].error = None
                  /\ results[k].tweet_id # None
                  /\ results[k].tweet_url # None
             ELSE /\ results[k].success = FALSE
                  /\ results[k].error = CreateCalls[k].outcome
                  /\ results[k].tweet_id = None
                  /\ results[k].tweet_url = None
       /\ node = "END"
          => /\ tweet_results = results
             /\ Len(CreateCalls) = Len(Pairs)

C3_Witness ==
    /\ node = "END"
    /\ LiveMode
    /\ Len(tweet_results) = 2
    /\ tweet_results[1].success = FALSE
    /\ tweet_results[1].error = "403 Forbidden"
    /\ tweet_results[2].success = TRUE

\* the image attempt of pair k failed: a non-200 response, an exception in
\* the fetch, or an exception between the fetch and the end of the upload
ImageFetched(k) ==
    \E n \in CallsFor("image_get", k) : platform_calls[n].outcome = "200"
ImageUploaded(k) ==
    \E n \in CallsFor("media_upload", k) : platform_calls[n].outcome = "ok"
ImageTried(k) == CallsFor("image_get", k) # {}
ImageAttemptOver(k) ==
    k < i \/ node = "END" \/ (k = i /\ pc = "create_tweet")
ImageFailed(k) == ImageTried(k) /\ ImageAttemptOver(k) /\ ~ImageUploaded(k)

(* C4: in live mode, once the image attempt of a pair has failed the next  *)
(* step of that pair is its create_tweet call with no media identifier;    *)
(* every finished pair has exactly one create_tweet call, which carries a  *)
(* media identifier only when the fetch returned 200 and the upload        *)
(* succeeded; and the pair's result is the outcome of that call, so an     *)
(* image failure alone never makes it a failure.                           *)
C4_ImageFallback ==
    (LiveMode /\ Entered("post_to_twitter"))
    => /\ \A k \in 1..Len(Pairs) :
             /\ ImageTried(k) => Truthy(Pairs[k].article.image_url)
             /\ (ImageFailed(k) /\ k = i /\ node = "post_to_twitter")
                => /\ pc = "create_tweet"
                   /\ media_id = None
                   /\ CallsFor("create_tweet", k) = {}
             /\ (k < i \/ node = "END")
                => /\ Cardinality(CallsFor("create_tweet", k)) = 1
                   /\ \A n \in CallsFor("create_tweet", k) :
                         /\ platform_calls[n].media # None
                            <=> (ImageFetched(k) /\ ImageUploaded(k))
                         /\ ImageFailed(k) => platform_calls[n].media = None
                         /\ results[k].success
                            = (platform_calls[n].outcome = "ok")

C4_Witness ==
    /\ node = "END"
    /\ LiveMode
    /\ \E n \in CallsFor("image_get", 1) : platform_calls[n].outcome = "404"
    /\ \E n \in CallsFor("create_tweet", 1) : platform_calls[n].media = None
    /\ tweet_results[1].success = TRUE

(* C5: a temporary media file exists only during the upload attempt it     *)
(* was created for: none is left once that attempt is over, between pairs  *)
(* or at the end of the run.                                               *)
C5_TempFilesReleased ==
    \A f \in tmp_files :
        /\ node = "post_to_twitter"
        /\ pc = "media_upload"
        /\ f = i

(* C6: with auto-post on and a platform client that failed to initialise,  *)
(* post_to_twitter fails before any pair: no image fetch, no upload, no    *)
(* create_tweet, and no result at all.                                     *)
C6_MissingClientFatal ==
    (AutoPostOn /\ (~twitter_client \/ ~twitter_api_v1))
    => /\ platform_calls = <<>>
       /\ tweet_results = <<>>
       /\ results = <<>>
       /\ node # "END"
       /\ Entered("post_to_twitter")
          => /\ node = "FAILED"
             /\ error = "Twitter clients not initialized properly"

C6_Witness ==
    /\ node = "FAILED"
    /\ error = "Twitter clients not initialized properly"
    /\ twitter_client
    /\ ~twitter_api_v1
    /\ Len(rewritten_tweets) = 2
    /\ num_tweets_to_post = 2

LlmFailed == \E k \in 1..Len(llm_log) : llm_log[k].raised

(* C7: the stages run in the order fetch, rank, rewrite, publish, each at  *)
(* most once; nothing of the publish stage (a platform call, a result)     *)
(* exists while a rewrite is outstanding; and a failing language-model     *)
(* call ends the run with nothing published and no result.                 *)
C7_StagesInOrder ==
    /\ Len(trace) <= Len(StageOrder)
    /\ \A k \in 1..Len(trace) : trace[k] = StageOrder[k]
    /\ (\/ Entered("post_to_twitter")
        \/ platform_calls # <<>>
        \/ tweet_results # <<>>
        \/ results # <<>>)
       => /\ Len(rewritten_tweets) = Len(top_articles)
          /\ Len(llm_log) = Len(top_articles)
          /\ ~LlmFailed
    /\ LlmFailed
       => /\ node = "FAILED"
          /\ platform_calls = <<>>
          /\ tweet_results = <<>>
          /\ rewritten_tweets = <<>>

C7_Witness ==
    /\ node = "FAILED"
    /\ LlmFailed
    /\ Len(top_articles) = 2
    /\ Len(rewritten) = 1
    /\ AutoPostOn


\* the place of an article in the fetched list (urls are distinct)
Pos(x) == CHOOSE k \in 1..Len(articles) : articles[k].url = x.url

Selected(k) == \E a \in 1..Len(top_articles) : top_articles[a].url = articles[k].url

\* trust + recency + image bonus of the three sampled articles: BBC News,
\* one hour old, with an image; an unlisted source, ten days old, without
\* one; CNBC (7) with an unparsable timestamp (3) and an empty image URL
ExpectedTotal(a) ==
    CASE a.source = "BBC News" -> 10 + 10 + 2
      [] a.source = "Unknown" -> 5 + 2 + 0
      [] a.source = "CNBC" -> 7 + 3 + 0

(* C8: prioritize_articles returns min(5, n) of the n articles, each with  *)
(* its total score, sorted by descending score, equal scores in fetch      *)
(* order; no article left out outscores a returned one; no articles give   *)
(* no top articles.                                                        *)
C8_TopFiveStable ==
    node = "rewrite_news"
    => /\ Len(top_articles) = Smaller(5, Len(articles))
       /\ articles = <<>> => top_articles = <<>>
       /\ \A a \in 1..Len(top_articles) :
             /\ \E k \in 1..Len(articles) : articles[k] = top_articles[a]
             /\ top_articles[a].priority_score = ExpectedTotal(top_articles[a])
       /\ \A a, b \in 1..Len(top_articles) :
             a < b
             => \/ top_articles[a].priority_score > top_articles[b].priority_score
                \/ /\ top_articles[a].priority_score = top_articles[b].priority_score
                   /\ Pos(top_articles[a]) < Pos(top_articles[b])
       /\ \A k \in 1..Len(articles) :
             ~Selected(k)
             => \A a \in 1..Len(top_articles) :
                   \/ articles[k].priority_score < top_articles[a].priority_score
                   \/ /\ articles[k].priority_score = top_articles[a].priority_score
                      /\ Pos(top_articles[a]) < k

C8_Witness ==
    /\ node = "rewrite_news"
    /\ Len(articles) = 6
    /\ Len(top_articles) = 5
    /\ \E a, b \in 1..5 :
          /\ a < b
          /\ top_articles[a].priority_score = top_articles[b].priority_score
          /\ Pos(top_articles[a]) > 1
    /\ \E k \in 1..6 :
          ~Selected(k) /\ articles[k].priority_score = top_articles[5].priority_score

\* the output after strip() and the link substitution
Cleaned(content) == ReSubLinks(Strip(content))

\* no surrounding whitespace and no bracket, so nothing to trim or replace
Plain(content) ==
    /\ content # <<>>
    /\ content[1] \notin Whitespace
    /\ content[Len(content)] \notin Whitespace
    /\ \A k \in 1..Len(content) : content[k] # "["

(* C9 as stated: every post is at most 250 characters, and the post for a  *)
(* model output longer than 250 characters is exactly 250 characters long. *)
C9_LongOutputGives250 ==
    \A k \in 1..Len(rewritten) :
        /\ Len(rewritten[k]) <= 250
        /\ Len(llm_log[k].content) > 250 => Len(rewritten[k]) = 250

(* C9 amended: every post is at most 250 characters, and it is exactly     *)
(* the first 250 characters of the output as trimmed and freed of          *)
(* markdown links whenever that text is longer than 250 characters: so     *)
(* for every output longer than 250 that has no surrounding whitespace     *)
(* and no bracket.                                                         *)
C9_CleanedLongGives250 ==
    \A k \in 1..Len(rewritten) :
        LET content == llm_log[k].content
        IN  /\ Len(rewritten[k]) <= 250
            /\ Len(Cleaned(content)) > 250
               => /\ Len(rewritten[k]) = 250
                  /\ rewritten[k] = SubSeq(Cleaned(content), 1, 250)
            /\ (Plain(content) /\ Len(content) > 250)
               => rewritten[k] = SubSeq(content, 1, 250)

C9_Witness ==
    \E k \in 1..Len(rewritten) :
        /\ Len(llm_log[k].content) > 250
        /\ llm_log[k].content[1] \in Whitespace
        /\ llm_log[k].content[2] = "["
        /\ Len(Cleaned(llm_log[k].content)) > 250
        /\ Len(rewritten[k]) = 250

\* the recency score the breakpoints give for an elapsed time in seconds
BucketScore(secs) ==
    IF secs <= 6 * 3600 THEN 10
    ELSE IF secs <= 24 * 3600 THEN 8
    ELSE IF secs <= 48 * 3600 THEN 6
    ELSE IF secs <= 168 * 3600 THEN 4
    ELSE 2

(* C10: the recency score of a well-formed ISO-8601 timestamp is the       *)
(* bucket of its elapsed hours (<= 6h: 10, <= 24h: 8, <= 48h: 6,           *)
(* <= 168h: 4, older: 2; so non-increasing in the elapsed time and in      *)
(* {10, 8, 6, 4, 2}), and a missing or unparsable one scores 3.            *)
C10_RecencyBuckets ==
    node = "rewrite_news"
    => \A k \in 1..Len(articles) :
          LET p == articles[k].published_at
              r == articles[k].priority_reason.recency
          IN  IF p.form = "iso"
              THEN r = BucketScore(now_utc - p.t)
              ELSE r = 3

====
